---- MODULE Spec2Model ----
(***************************************************************************)
(* Model of batch_simulations.py: the grid expander (run_batch), the       *)
(* run wrapper (simulation_wrapper) and the batch orchestrator             *)
(* (run_simulations_low) with its worker pool, result artifacts and        *)
(* index.json checkpoints.                                                 *)
(*                                                                         *)
(* Numbers are exact rationals [n, d] (d > 0, lowest terms), so that the   *)
(* true division of line 115/118 and int(max_t/dt) of line 39 are computed *)
(* and not assumed.  Python's None is the record None; a dict is a         *)
(* function from key names to values.                                      *)
(*                                                                         *)
(* Specifications:                                                         *)
(*   Spec      one call of run_batch or run_simulations_low on a freshly   *)
(*             constructed BatchSimulator, workers may be interrupted;     *)
(*   FairSpec  the same for run_simulations_low with workers that all      *)
(*             return, under weak fairness;                                *)
(*   Session   a BatchSimulator from before its construction (__init__     *)
(*             and the operator's prompt) through consecutive batches;     *)
(*   SimSpec   one run_simulation call, statement by statement.            *)
(***************************************************************************)
EXTENDS Integers, Sequences, FiniteSets, TLC

(* ------------------------------ bounds -------------------------------- *)
\* longest parameter list handed directly to run_simulations_low
MaxN == 10
\* most worker processes that are interrupted during one batch
MaxLost == 1
\* largest explicit n_jobs argument
MaxJobs == 2
\* most axes in a ranges mapping given to run_batch
MaxAxes == 2
\* most values on one axis of ranges
MaxAxisLen == 2
\* largest Cartesian product run_batch is asked to expand
MaxGrid == 4
\* most batches run on one BatchSimulator
MaxBatches == 2
\* longest parameter list of a batch that follows another on the same BatchSimulator
MaxSessionN == 2
\* longest simulated time of a stepped run_simulation call, in tenths
MaxTenths == 10

(* ----------------------------- rationals ------------------------------ *)
RECURSIVE GCD(_, _)
GCD(a, b) == IF b = 0 THEN a ELSE GCD(b, a % b)

Abs(x) == IF x < 0 THEN -x ELSE x

\* the rational n/d in lowest terms with a positive denominator
Rat(n, d) ==
    LET g == GCD(Abs(n), Abs(d))
        s == IF d < 0 THEN -1 ELSE 1
    IN  [n |-> s * (n \div g), d |-> s * (d \div g)]

\* Python's a / b on numbers; defined for b /= 0 (b = 0 raises ZeroDivisionError)
TrueDiv(a, b) == Rat(a.n * b.d, a.d * b.n)

\* int(a / b) for a, b >= 0, b /= 0  (line 39: truncation of the quotient)
IntDiv(a, b) == (a.n * b.d) \div (a.d * b.n)

(* --------------------------- ParameterSets ---------------------------- *)
\* the keyword arguments of run_simulation that the grid expander reads or writes
Keys == {"dt", "mu", "mu_scale", "alpha", "alpha_scale"}

\* Python's None
None == [type |-> "NoneType"]

\* d[key] = value on a dict d (insert or overwrite)
SetItem(d, key, value) ==
    [k \in (DOMAIN d) \cup {key} |-> IF k = key THEN value ELSE d[k]]

(* ---------------------------- run_batch ------------------------------- *)
\* ranges is an insertion-ordered dict: a sequence of axes [p |-> name, vals |-> values]
RangeKeys(ranges) == {ranges[a].p : a \in 1..Len(ranges)}

\* a run_batch without the check of line 97
RangesEmptyUnchecked(ranges) == FALSE

\* line 97: not len(ranges)
RangesEmpty(ranges) == Len(ranges) = 0

\* a run_batch that checks mu only
ScaleConflictMuOnly(base_params, ranges) ==
    "mu_scale" \in DOMAIN base_params /\ "mu" \in RangeKeys(ranges)

\* lines 103-106: the two ValueError checks
ScaleConflict(base_params, ranges) ==
    \/ "mu_scale" \in DOMAIN base_params /\ "mu" \in RangeKeys(ranges)
    \/ "alpha_scale" \in DOMAIN base_params /\ "alpha" \in RangeKeys(ranges)

\* a product whose first list varies fastest
RECURSIVE ProductFirstFastest(_)
ProductFirstFastest(lists) ==
    IF Len(lists) = 0 THEN << <<>> >>
    ELSE LET h == Head(lists)
             rest == ProductFirstFastest(Tail(lists))
             m == Len(h)
         IN  [j \in 1..(m * Len(rest)) |->
                 <<h[((j - 1) % m) + 1]>> \o rest[((j - 1) \div m) + 1]]

\* itertools.product(*lists): tuples in order, the last list varying fastest
RECURSIVE Product(_)
Product(lists) ==
    IF Len(lists) = 0 THEN << <<>> >>
    ELSE LET h == Head(lists)
             rest == Product(Tail(lists))
             m == Len(rest)
         IN  [j \in 1..(Len(h) * m) |->
                 <<h[((j - 1) \div m) + 1]>> \o rest[((j - 1) % m) + 1]]

\* lines 109-111: deepcopy(base_params), then input_params[p] = c for each axis in order
RECURSIVE Overlay(_, _, _, _)
Overlay(input_params, ranges, choice, a) ==
    IF a > Len(ranges) THEN input_params
    ELSE Overlay(SetItem(input_params, ranges[a].p, choice[a]), ranges, choice, a + 1)

\* lines 113-118 raise ZeroDivisionError: a scale form is divided by dt = 0
DeriveRaises(input_params) ==
    /\ "dt" \in DOMAIN input_params
    /\ input_params["dt"].n = 0
    /\ ("mu_scale" \in DOMAIN input_params \/ "alpha_scale" \in DOMAIN input_params)

\* a derivation that keeps a mu or alpha the set already holds
DeriveKeepRaw(input_params) ==
    IF "dt" \notin DOMAIN input_params THEN input_params
    ELSE LET withMu ==
                 IF "mu_scale" \in DOMAIN input_params /\ "mu" \notin DOMAIN input_params
                 THEN SetItem(input_params, "mu",
                              TrueDiv(input_params["mu_scale"], input_params["dt"]))
                 ELSE input_params
         IN  IF "alpha_scale" \in DOMAIN withMu /\ "alpha" \notin DOMAIN withMu
             THEN SetItem(withMu, "alpha",
                          TrueDiv(withMu["alpha_scale"], withMu["dt"]))
             ELSE withMu

\* lines 113-118: mu = mu_scale / dt and alpha = alpha_scale / dt when dt is set
Derive(input_params) ==
    IF "dt" \notin DOMAIN input_params THEN input_params
    ELSE LET withMu ==
                 IF "mu_scale" \in DOMAIN input_params
                 THEN SetItem(input_params, "mu",
                              TrueDiv(input_params["mu_scale"], input_params["dt"]))
                 ELSE input_params
         IN  IF "alpha_scale" \in DOMAIN withMu
             THEN SetItem(withMu, "alpha",
                          TrueDiv(withMu["alpha_scale"], withMu["dt"]))
             ELSE withMu

\* lines 108-111: the overlaid ParameterSets, one per choice of the product
Overlaid(base_params, ranges) ==
    LET choices == Product([a \in 1..Len(ranges) |-> ranges[a].vals])
    IN  [j \in 1..Len(choices) |-> Overlay(base_params, ranges, choices[j], 1)]

\* lines 108-120: the loop raises as soon as one set divides by dt = 0
ExpandRaises(base_params, ranges) ==
    LET sets == Overlaid(base_params, ranges)
    IN  \E j \in 1..Len(sets) : DeriveRaises(sets[j])

\* lines 101-120: param_list
Expand(base_params, ranges) ==
    LET sets == Overlaid(base_params, ranges)
    IN  [j \in 1..Len(sets) |-> Derive(sets[j])]

(* -------------------- run_simulation / the wrapper --------------------- *)
\* line 26-27: defaults of run_simulation (dt=.01, mu=1, max_t=10, alpha=None)
DefaultDt == Rat(1, 100)
DefaultMu == Rat(1, 1)
DefaultMaxT == Rat(10, 1)

EffectiveDt(params) == IF "dt" \in DOMAIN params THEN params["dt"] ELSE DefaultDt
EffectiveMu(params) == IF "mu" \in DOMAIN params THEN params["mu"] ELSE DefaultMu
EffectiveAlpha(params) == IF "alpha" \in DOMAIN params THEN params["alpha"] ELSE None

\* the exception classes that `except Exception` (line 63) catches, and those it does not
ExceptionClasses == {"ZeroDivisionError"}
BaseOnlyClasses == {"KeyboardInterrupt"}

\* what run_simulation(**params) raises ("" when it returns): KeyboardInterrupt when
\* the process is interrupted, ZeroDivisionError at line 39 (max_t/dt) when dt = 0
RaisedBy(params, signal) ==
    IF signal = "SIGINT" THEN "KeyboardInterrupt"
    ELSE IF EffectiveDt(params).n = 0 THEN "ZeroDivisionError"
    ELSE ""

\* lines 26-58: run_simulation(**params) either raises or returns its series.
\* signal is what the worker process receives while it runs: "none" or "SIGINT"
\* (Python raises KeyboardInterrupt inside the loop).  The series themselves come from
\* the solver; the result records their length and the arguments it was built with.
run_simulation(params, signal) ==
    IF RaisedBy(params, signal) # ""
    THEN [kind |-> "raise", exc |-> RaisedBy(params, signal)]
    ELSE [kind |-> "return",
          value |-> [type |-> "dict",
                     steps |-> IntDiv(DefaultMaxT, EffectiveDt(params)),
                     dt |-> EffectiveDt(params),
                     mu |-> EffectiveMu(params),
                     alpha |-> EffectiveAlpha(params)]]

\* a wrapper without the try/except
simulation_wrapper_uncaught(params, signal) ==
    LET out == run_simulation(params, signal)
    IN  IF out.kind = "return"
        THEN [kind |-> "return", value |-> out.value, printed |-> <<>>]
        ELSE [kind |-> "raise", exc |-> out.exc, printed |-> <<>>]

\* a wrapper that returns None without printing
simulation_wrapper_silent(params, signal) ==
    LET out == run_simulation(params, signal)
    IN  IF out.kind = "return"
        THEN [kind |-> "return", value |-> out.value, printed |-> <<>>]
        ELSE IF out.exc \in ExceptionClasses
        THEN [kind |-> "return", value |-> None, printed |-> <<>>]
        ELSE [kind |-> "raise", exc |-> out.exc, printed |-> <<>>]

\* lines 60-66: what simulation_wrapper does with the outcome of run_simulation:
\* printed is what it writes to stdout (the params and the traceback)
simulation_wrapper(params, signal) ==
    LET out == run_simulation(params, signal)
    IN  IF out.kind = "return"
        THEN [kind |-> "return", value |-> out.value, printed |-> <<>>]
        ELSE IF out.exc \in ExceptionClasses
        THEN [kind |-> "return", value |-> None, printed |-> <<params, out.exc>>]
        ELSE [kind |-> "raise", exc |-> out.exc, printed |-> <<>>]

(* ------------------------------- state -------------------------------- *)
VARIABLES
    pc,           \* where the caller of the BatchSimulator is
    call,         \* the method that is executing: "none", "run_batch", "run_simulations_low"
    error,        \* the exception that reached the caller ("" when none)
    base_params,  \* run_batch: its base_params argument
    ranges,       \* run_batch: its ranges argument
    param_list,   \* the list of ParameterSets given to run_simulations_low
    n_jobs,       \* run_simulations_low: its n_jobs argument ({} is None, {n} is n)
    processes,    \* line 132
    pools,        \* how many times mp.Pool(...) was called
    tasks,        \* the pool: for each submitted task, what its worker has done
    i,            \* line 136/148
    result,       \* the loop variable of line 137
    index,        \* line 125
    index_file,   \* <outdir>/index.json: [exists, entries]
    artifacts,    \* <outdir>/results_<i>.npz: a function from file names to contents
    outdir,       \* os.path.exists(outdir): "absent" or "dir"
    overwrite,    \* __init__: its overwrite argument
    ans,          \* __init__: the operator's answer (line 88), a sequence of characters
    exit_code,    \* the status the process has exited with ({} while it runs)
    arrays,       \* the state arrays in memory: self.start_x and the workers' copies
    sim           \* the frame of one run_simulation call (lines 26-58)

vars == <<pc, call, error, base_params, ranges, param_list, n_jobs, processes,
          pools, tasks, i, result, index, index_file, artifacts,
          outdir, overwrite, ans, exit_code, arrays, sim>>

\* the variables of one run_simulations_low frame and of the pool
lowVars == <<processes, pools, tasks, i, result, index>>
\* the output directory
diskVars == <<index_file, artifacts>>
\* the arguments of the call
argVars == <<call, base_params, ranges, param_list, n_jobs>>
\* the frame of __init__ and the process's exit status
ctorVars == <<outdir, overwrite, ans, exit_code>>

EmptyDict == [k \in {} |-> None]
NoFile == [exists |-> FALSE, entries |-> <<>>]

\* line 126 / 143: the two kinds of file names in outdir
ArtifactName(n) == <<"results_", n, ".npz">>

(* --------------------------- the WarmupState --------------------------- *)
\* line 72: defaults of __init__ (warmup_time=10, warmup_dt=1e-4)
DefaultWarmupTime == Rat(10, 1)
DefaultWarmupDt == Rat(1, 10000)

\* A solver state is named by how it was reached: advanced `warm` times during the
\* warmup (lines 76-78) and `adv` times since.  Lines 80-81 capture warmup.x and
\* warmup.xspec after int(warmup_time/warmup_dt) steps.
WarmupState == [warm |-> IntDiv(DefaultWarmupTime, DefaultWarmupDt), adv |-> 0]

\* advance() called steps times on a state
Advanced(state, steps) == [state EXCEPT !.adv = @ + steps]

\* the arrays that hold a state, by where they live: self.start_x / self.start_xspec
\* of the orchestrator, the copy a worker unpickles with task k's func (line 134, 138),
\* and true.x / true.xspec of run k (lines 32-33)
SelfArray == <<"self">>
TaskArray(k) == <<"task", k>>

\* a run whose reference trajectory works on the orchestrator's own arrays
TrueArrayShared(k) == SelfArray

\* lines 32-33: start_xspec.copy(), start_x.copy() are new arrays
TrueArray(k) == <<"true", k>>

\* the memory after a worker has run task k with outcome out: it unpickles its copy
\* of the start state, run_simulation copies it into `true` (lines 30-33) and the
\* loop advances `true` once per step (line 54); a run that raises at line 39 has
\* not advanced
RunArrays(a, k, out) ==
    LET unpickled == SetItem(a, TaskArray(k), a[SelfArray])
        copied == SetItem(unpickled, TrueArray(k), unpickled[TaskArray(k)])
    IN  IF out.kind = "return" /\ out.value # None
        THEN [copied EXCEPT ![TrueArray(k)] = Advanced(@, out.value.steps)]
        ELSE copied

\* a BatchSimulator before any run: only the orchestrator's arrays exist
OwnArrays(a) == [x \in {SelfArray} |-> a[SelfArray]]

\* no run_simulation frame
NoSim == [pc |-> "none"]

(* --------------------------- input families --------------------------- *)
\* candidate values of each axis, in the order a sweep lists them
CandVals(key) ==
    CASE key = "dt" -> <<Rat(1, 10), Rat(0, 1), Rat(1, 100)>>
      [] key = "mu" -> <<Rat(1, 1), Rat(2, 1), Rat(3, 1)>>
      [] key = "mu_scale" -> <<Rat(4, 5), Rat(9, 5), Rat(1, 5)>>
      [] key = "alpha" -> <<Rat(1, 2), Rat(3, 2), Rat(5, 2)>>
      [] key = "alpha_scale" -> <<Rat(1, 100), Rat(1, 10), Rat(1, 5)>>

\* the value a base ParameterSet gives a key it sets
BaseVal(key) ==
    CASE key = "dt" -> Rat(1, 20)
      [] key = "mu" -> Rat(5, 1)
      [] key = "mu_scale" -> Rat(2, 5)
      [] key = "alpha" -> Rat(7, 2)
      [] key = "alpha_scale" -> Rat(1, 20)

Min(a, b) == IF a < b THEN a ELSE b
Max(a, b) == IF a > b THEN a ELSE b

BaseChoices == {[k \in S |-> BaseVal(k)] : S \in SUBSET Keys}

AxisChoices ==
    UNION {{[p |-> k, vals |-> SubSeq(CandVals(k), 1, n)] :
               n \in 0..Min(MaxAxisLen, Len(CandVals(k)))} : k \in Keys}

RECURSIVE GridSize(_)
GridSize(r) == IF Len(r) = 0 THEN 1 ELSE Len(Head(r).vals) * GridSize(Tail(r))

\* ranges dicts: at most MaxAxes axes with distinct names, at most MaxGrid combinations
RECURSIVE RangesUpTo(_)
RangesUpTo(n) ==
    IF n = 0 THEN {<<>>}
    ELSE LET shorter == RangesUpTo(n - 1)
         IN  shorter \cup
             {Append(r, ax) : r \in {q \in shorter : Len(q) = n - 1},
                              ax \in AxisChoices} 

RangesChoices ==
    {r \in RangesUpTo(Min(MaxAxes, Cardinality(Keys))) :
        /\ \A a, b \in 1..Len(r) : a # b => r[a].p # r[b].p
        /\ GridSize(r) <= MaxGrid}

\* directly submitted lists: a sweep over mu at dt = 1/10, with dt = 0 at position bad
\* (bad = 0: at no position)
MuSweep(n, bad) ==
    [k \in 1..n |-> [dt |-> IF k = bad THEN Rat(0, 1) ELSE Rat(1, 10),
                     mu |-> Rat(k, 1)]]

\* the failing set stands nowhere, first or last
BadChoices(n) == {0, 1, n}

DirectLists == UNION {{MuSweep(n, bad) : bad \in BadChoices(n)} : n \in 0..MaxN}

\* the machines: mp.cpu_count() up to the size whose default reaches MaxJobs workers
CpuChoices == 1..(MaxJobs + 1)

JobsChoices == {{}} \cup {{n} : n \in -1..MaxJobs}

(* -------------------------------- Init -------------------------------- *)
\* after BatchSimulator(outdir): outdir exists and is empty (lines 85-93)
Init ==
    /\ pc = "idle"
    /\ call = "none"
    /\ error = ""
    /\ base_params = EmptyDict
    /\ ranges = <<>>
    /\ param_list = <<>>
    /\ n_jobs = {}
    /\ processes = 0
    /\ pools = 0
    /\ tasks = <<>>
    /\ i = 0
    /\ result = None
    /\ index = <<>>
    /\ index_file = NoFile
    /\ artifacts = <<>>
    /\ outdir = "dir"
    /\ overwrite = FALSE
    /\ ans = <<>>
    /\ exit_code = {}
    /\ arrays = [x \in {SelfArray} |-> WarmupState]
    /\ sim = NoSim

(* ------------------------------ run_batch ----------------------------- *)
\* lines 96-122, up to the call of run_simulations_low(param_list): the checks of
\* lines 97-106 raise to the caller, so does a division by dt = 0 in the loop
RunBatch(b, r) ==
    /\ pc = "idle"
    /\ call' = "run_batch"
    /\ base_params' = b
    /\ ranges' = r
    /\ IF RangesEmpty(r)
       THEN /\ pc' = "raised"
            /\ error' = "RuntimeWarning"
            /\ UNCHANGED <<param_list, n_jobs>>
       ELSE IF ScaleConflict(b, r)
       THEN /\ pc' = "raised"
            /\ error' = "ValueError"
            /\ UNCHANGED <<param_list, n_jobs>>
       ELSE IF ExpandRaises(b, r)
       THEN /\ pc' = "raised"
            /\ error' = "ZeroDivisionError"
            /\ UNCHANGED <<param_list, n_jobs>>
       ELSE /\ pc' = "low"
            /\ param_list' = Expand(b, r)
            /\ n_jobs' = {}
            /\ UNCHANGED error
    /\ UNCHANGED lowVars
    /\ UNCHANGED diskVars
    /\ UNCHANGED <<ctorVars, arrays, sim>>

\* a direct call run_simulations_low(param_list, n_jobs)  (line 124)
CallLow(pl, nj) ==
    /\ pc = "idle"
    /\ call' = "run_simulations_low"
    /\ param_list' = pl
    /\ n_jobs' = nj
    /\ pc' = "low"
    /\ UNCHANGED <<error, base_params, ranges>>
    /\ UNCHANGED lowVars
    /\ UNCHANGED diskVars
    /\ UNCHANGED <<ctorVars, arrays, sim>>

(* -------------------------- run_simulations_low ----------------------- *)
\* lines 127-129: the default of n_jobs on a machine with cpu processors
JobsOrDefault(nj, cpu) ==
    IF nj = {} THEN (3 * cpu) \div 4 ELSE CHOOSE n \in nj : TRUE

\* lines 131-132
ProcessCount(nj, cpu, n_simulations) ==
    Min(Max(1, JobsOrDefault(nj, cpu)), n_simulations)

Queued == [st |-> "queued"]

\* lines 125-136: the index, the pool (mp.Pool raises ValueError when processes < 1)
\* and the submission of every task by imap.  The arguments of the call are not
\* read again by the loop except param_list, so the model forgets the others here.
StartPool(cpu) ==
    /\ pc = "low"
    /\ index' = <<>>
    /\ processes' = ProcessCount(n_jobs, cpu, Len(param_list))
    /\ IF processes' < 1
       THEN /\ pc' = "raised"
            /\ error' = "ValueError"
            /\ UNCHANGED <<pools, tasks, i, arrays>>
       ELSE /\ pc' = "recv"
            /\ pools' = pools + 1
            /\ arrays' = OwnArrays(arrays)
            /\ tasks' = [k \in 1..Len(param_list) |-> Queued]
            /\ i' = 0
            /\ UNCHANGED error
    /\ call' = "run_simulations_low"
    /\ base_params' = EmptyDict
    /\ ranges' = <<>>
    /\ n_jobs' = {}
    /\ UNCHANGED <<param_list, result>>
    /\ UNCHANGED diskVars
    /\ UNCHANGED <<ctorVars, sim>>

(* ------------------------------ the pool ------------------------------ *)
\* workers take the submitted tasks in order, at most `processes` at a time:
\* task k can be running only when fewer than `processes` earlier tasks are unfinished
CanRun(k) ==
    /\ k \in 1..Len(tasks)
    /\ tasks[k].st = "queued"
    /\ Cardinality({j \in 1..(k - 1) : tasks[j].st = "queued"}) < processes

\* multiprocessing's worker loop catches Exception only: when the task's function
\* raises anything else the worker process dies and the task never reports a result
Lost(t) == t.st = "done" /\ t.out.kind = "raise" /\ t.out.exc \notin ExceptionClasses

Ready(t) == t.st = "done" /\ ~Lost(t)

LostCount == Cardinality({k \in 1..Len(tasks) : Lost(tasks[k])})

\* a worker runs func(params) = simulation_wrapper(params, ...) to its end  (line 134/138)
WorkerReturns(k) ==
    /\ CanRun(k)
    /\ tasks' = [tasks EXCEPT
                   ![k] = [st |-> "done", out |-> simulation_wrapper(param_list[k], "none")]]
    /\ arrays' = RunArrays(arrays, k, tasks'[k].out)
    /\ UNCHANGED <<pc, error, processes, pools, i, result, index>>
    /\ UNCHANGED argVars
    /\ UNCHANGED diskVars
    /\ UNCHANGED <<ctorVars, sim>>

\* the worker running task k receives SIGINT while it is inside run_simulation
WorkerInterrupted(k) ==
    /\ CanRun(k)
    /\ LostCount < MaxLost
    /\ tasks' = [tasks EXCEPT
                   ![k] = [st |-> "done", out |-> simulation_wrapper(param_list[k], "SIGINT")]]
    /\ UNCHANGED <<pc, error, processes, pools, i, result, index>>
    /\ UNCHANGED argVars
    /\ UNCHANGED diskVars
    /\ UNCHANGED <<ctorVars, arrays, sim>>

(* ------------------------------ the loop ------------------------------ *)
\* line 149: with i already incremented
CheckpointPeriod == 10
CheckpointDue(n) == (n + 1) % CheckpointPeriod = 0

\* lines 143-147
IndexEntry(res, params, filename) ==
    IF res # None
    THEN [succeded |-> TRUE, params |-> params, filename |-> filename]
    ELSE [succeded |-> FALSE, params |-> params, error |-> ""]

\* json.dump(index, fp): a JSON array of objects, True/False written as true/false
JsonDump(idx) ==
    [k \in 1..Len(idx) |->
        [f \in DOMAIN idx[k] |->
            IF f = "succeded" THEN (IF idx[k][f] THEN "true" ELSE "false")
            ELSE idx[k][f]]]

\* lines 151-152 and 155-156: open(index_file, "w"), json.dump
WriteIndex(idx) == [exists |-> TRUE, entries |-> JsonDump(idx)]

\* a loop that takes whichever result is ready, the latest submitted first
ReceiveUnordered ==
    /\ pc = "recv"
    /\ i < Len(param_list) => \E j \in (i + 1)..Len(tasks) : Ready(tasks[j])
    /\ IF i >= Len(param_list)
       THEN /\ pc' = "final"
            /\ UNCHANGED <<error, result>>
       ELSE LET j == CHOOSE j \in (i + 1)..Len(tasks) :
                        /\ Ready(tasks[j])
                        /\ \A m \in (j + 1)..Len(tasks) : ~Ready(tasks[m])
            IN  /\ result' = tasks[j].out.value
                /\ pc' = IF result' # None THEN "save" ELSE "append"
                /\ UNCHANGED error
    /\ UNCHANGED <<processes, pools, tasks, i, index>>
    /\ UNCHANGED argVars
    /\ UNCHANGED diskVars
    /\ UNCHANGED <<ctorVars, arrays, sim>>

\* an iterator that gives up on a task that has not reported and yields None for it
ReceiveWithTimeout ==
    /\ pc = "recv"
    /\ IF i >= Len(param_list)
       THEN /\ pc' = "final"
            /\ UNCHANGED <<error, result>>
       ELSE IF ~Ready(tasks[i + 1])
       THEN /\ result' = None
            /\ pc' = "append"
            /\ UNCHANGED error
       ELSE IF tasks[i + 1].out.kind = "raise"
       THEN /\ pc' = "raised"
            /\ error' = tasks[i + 1].out.exc
            /\ UNCHANGED result
       ELSE /\ result' = tasks[i + 1].out.value
            /\ pc' = IF result' # None THEN "save" ELSE "append"
            /\ UNCHANGED error
    /\ UNCHANGED <<processes, pools, tasks, i, index>>
    /\ UNCHANGED argVars
    /\ UNCHANGED diskVars
    /\ UNCHANGED <<ctorVars, arrays, sim>>

\* line 137: the next item of pool.imap, in submission order; the iterator blocks until
\* task i has reported, re-raises what the task raised, and ends after the last task
Receive ==
    /\ pc = "recv"
    /\ i < Len(param_list) => Ready(tasks[i + 1])
    /\ IF i >= Len(param_list)
       THEN /\ pc' = "final"
            /\ UNCHANGED <<error, result>>
       ELSE IF tasks[i + 1].out.kind = "raise"
       THEN /\ pc' = "raised"
            /\ error' = tasks[i + 1].out.exc
            /\ UNCHANGED result
       ELSE /\ result' = tasks[i + 1].out.value
            /\ pc' = IF result' # None THEN "save" ELSE "append"
            /\ UNCHANGED error
    /\ UNCHANGED <<processes, pools, tasks, i, index>>
    /\ UNCHANGED argVars
    /\ UNCHANGED diskVars
    /\ UNCHANGED <<ctorVars, arrays, sim>>

\* a loop that goes on to the entry without having written the artifact
SaveArtifactSkipped ==
    /\ pc = "save"
    /\ pc' = "append"
    /\ UNCHANGED <<error, index_file, artifacts>>
    /\ UNCHANGED lowVars
    /\ UNCHANGED argVars
    /\ UNCHANGED <<ctorVars, arrays, sim>>

\* lines 143-144: np.savez(filename, **result)
SaveArtifact ==
    /\ pc = "save"
    /\ artifacts' = SetItem(artifacts, ArtifactName(i), result)
    /\ pc' = "append"
    /\ UNCHANGED <<error, index_file>>
    /\ UNCHANGED lowVars
    /\ UNCHANGED argVars
    /\ UNCHANGED <<ctorVars, arrays, sim>>

\* a loop that records successful runs only
AppendEntrySuccessOnly ==
    /\ pc = "append"
    /\ index' = IF result # None
                THEN Append(index, IndexEntry(result, param_list[i + 1], ArtifactName(i)))
                ELSE index
    /\ i' = i + 1
    /\ index_file' = IF CheckpointDue(i') THEN WriteIndex(index') ELSE index_file
    /\ pc' = "recv"
    /\ UNCHANGED <<error, processes, pools, tasks, result, artifacts>>
    /\ UNCHANGED argVars
    /\ UNCHANGED <<ctorVars, arrays, sim>>

\* a loop that puts the newest entry first
AppendEntryFront ==
    /\ pc = "append"
    /\ index' = <<IndexEntry(result, param_list[i + 1], ArtifactName(i))>> \o index
    /\ i' = i + 1
    /\ index_file' = IF CheckpointDue(i') THEN WriteIndex(index') ELSE index_file
    /\ pc' = "recv"
    /\ UNCHANGED <<error, processes, pools, tasks, result, artifacts>>
    /\ UNCHANGED argVars
    /\ UNCHANGED <<ctorVars, arrays, sim>>

\* lines 141, 145-152: the entry, i += 1, and the periodic write of the index
AppendEntry ==
    /\ pc = "append"
    /\ index' = Append(index, IndexEntry(result, param_list[i + 1], ArtifactName(i)))
    /\ i' = i + 1
    /\ index_file' = IF CheckpointDue(i') THEN WriteIndex(index') ELSE index_file
    /\ pc' = "recv"
    /\ UNCHANGED <<error, processes, pools, tasks, result, artifacts>>
    /\ UNCHANGED argVars
    /\ UNCHANGED <<ctorVars, arrays, sim>>

\* a call that returns after the loop without writing the index
FinalWriteSkipped ==
    /\ pc = "final"
    /\ pc' = "done"
    /\ UNCHANGED <<error, index_file, artifacts>>
    /\ UNCHANGED lowVars
    /\ UNCHANGED argVars
    /\ UNCHANGED <<ctorVars, arrays, sim>>

\* lines 154-156: the write after the loop
FinalWrite ==
    /\ pc = "final"
    /\ index_file' = WriteIndex(index)
    /\ pc' = "done"
    /\ UNCHANGED <<error, artifacts>>
    /\ UNCHANGED lowVars
    /\ UNCHANGED argVars
    /\ UNCHANGED <<ctorVars, arrays, sim>>

(* ------------------------------ __init__ ------------------------------ *)
\* str.strip() and str.lower() on the answer, a sequence of characters
Whitespace == {" ", "\t", "\n"}

RECURSIVE LStrip(_)
LStrip(s) == IF s # <<>> /\ Head(s) \in Whitespace THEN LStrip(Tail(s)) ELSE s

RECURSIVE RStrip(_)
RStrip(s) ==
    IF s # <<>> /\ s[Len(s)] \in Whitespace THEN RStrip(SubSeq(s, 1, Len(s) - 1)) ELSE s

Strip(s) == RStrip(LStrip(s))

LowerChar(c) ==
    CASE c = "Y" -> "y"
      [] c = "N" -> "n"
      [] c = "E" -> "e"
      [] c = "S" -> "s"
      [] OTHER -> c

Lower(s) == [j \in 1..Len(s) |-> LowerChar(s[j])]

\* line 89: ans.strip().lower() != "y" aborts
Confirms(a) == Lower(Strip(a)) = <<"y">>

\* what the operator may type at the prompt
AnswerChoices ==
    {<<"y">>, <<"Y">>, <<" ", "y", " ">>, <<"\t", "Y">>, <<"n">>, <<"N">>, <<>>,
     <<" ">>, <<"y", "e", "s">>, <<"y", " ", "y">>}

\* what outdir may be before the BatchSimulator is constructed: absent, an empty
\* directory, or a directory holding what an earlier batch left
OldResult == run_simulation([dt |-> Rat(1, 10), mu |-> Rat(1, 1)], "none").value

OldIndex == <<IndexEntry(OldResult, [dt |-> Rat(1, 10), mu |-> Rat(1, 1)], ArtifactName(0))>>

PriorDirs ==
    {[outdir |-> "absent", index_file |-> NoFile, artifacts |-> <<>>],
     [outdir |-> "dir", index_file |-> NoFile, artifacts |-> <<>>],
     [outdir |-> "dir", index_file |-> WriteIndex(OldIndex),
      artifacts |-> SetItem(<<>>, ArtifactName(0), OldResult)],
     [outdir |-> "dir", index_file |-> NoFile,
      artifacts |-> SetItem(<<>>, ArtifactName(1), OldResult)]}

\* before BatchSimulator(outdir, overwrite=...) is called
InitNew ==
    /\ pc = "new"
    /\ call = "none"
    /\ error = ""
    /\ base_params = EmptyDict
    /\ ranges = <<>>
    /\ param_list = <<>>
    /\ n_jobs = {}
    /\ processes = 0
    /\ pools = 0
    /\ tasks = <<>>
    /\ i = 0
    /\ result = None
    /\ index = <<>>
    /\ \E d \in PriorDirs :
          /\ outdir = d.outdir
          /\ index_file = d.index_file
          /\ artifacts = d.artifacts
    /\ overwrite \in BOOLEAN
    /\ ans = <<>>
    /\ exit_code = {}
    /\ arrays = <<>>
    /\ sim = NoSim

\* the variables no step of __init__ touches
batchVars == <<call, error, base_params, ranges, param_list, n_jobs, processes,
               pools, tasks, i, result, index, sim>>

\* lines 76-87: the warmup, the capture of its state, and the test of outdir
Construct ==
    /\ pc = "new"
    /\ arrays' = SetItem(arrays, SelfArray, WarmupState)
    /\ pc' = IF outdir # "absent"
             THEN (IF ~overwrite THEN "prompt" ELSE "rmtree")
             ELSE "makedirs"
    /\ UNCHANGED <<ctorVars, index_file, artifacts>>
    /\ UNCHANGED batchVars

\* a prompt that goes on unless the answer is n
PromptUnlessNo(a) ==
    /\ pc = "prompt"
    /\ ans' = a
    /\ IF Lower(Strip(a)) = <<"n">>
       THEN /\ pc' = "exited"
            /\ exit_code' = {0}
       ELSE /\ pc' = "rmtree"
            /\ UNCHANGED exit_code
    /\ UNCHANGED <<outdir, overwrite, index_file, artifacts, arrays>>
    /\ UNCHANGED batchVars

\* lines 88-91: input(...), and sys.exit(0) unless the answer is y
Prompt(a) ==
    /\ pc = "prompt"
    /\ ans' = a
    /\ IF ~Confirms(a)
       THEN /\ pc' = "exited"
            /\ exit_code' = {0}
       ELSE /\ pc' = "rmtree"
            /\ UNCHANGED exit_code
    /\ UNCHANGED <<outdir, overwrite, index_file, artifacts, arrays>>
    /\ UNCHANGED batchVars

\* line 92: shutil.rmtree(outdir)
Rmtree ==
    /\ pc = "rmtree"
    /\ outdir' = "absent"
    /\ index_file' = NoFile
    /\ artifacts' = <<>>
    /\ pc' = "makedirs"
    /\ UNCHANGED <<overwrite, ans, exit_code, arrays>>
    /\ UNCHANGED batchVars

\* lines 93-94: os.makedirs(outdir); __init__ returns and its frame is gone
Makedirs ==
    /\ pc = "makedirs"
    /\ outdir' = "dir"
    /\ overwrite' = FALSE
    /\ ans' = <<>>
    /\ pc' = "idle"
    /\ UNCHANGED <<exit_code, index_file, artifacts, arrays>>
    /\ UNCHANGED batchVars

(* ---------------------------- specification --------------------------- *)
\* what the caller and the machine may do: the inputs are drawn from the families above
CallRunBatch ==
    /\ pc = "idle"
    /\ \E b \in BaseChoices, r \in RangesChoices : RunBatch(b, r)

CallRunSimulationsLow ==
    /\ pc = "idle"
    /\ \E pl \in DirectLists, nj \in JobsChoices : CallLow(pl, nj)

EnterLow ==
    /\ pc = "low"
    /\ \E cpu \in CpuChoices : StartPool(cpu)

Worker ==
    /\ pc \in {"recv", "save", "append", "raised"}
    /\ \E k \in 1..Len(tasks) : WorkerReturns(k)

WorkerLoss ==
    /\ pc \in {"recv", "save", "append", "raised"}
    /\ \E k \in 1..Len(tasks) : WorkerInterrupted(k)

Next ==
    \/ CallRunBatch
    \/ CallRunSimulationsLow
    \/ EnterLow
    \/ Worker
    \/ WorkerLoss
    \/ Receive
    \/ SaveArtifact
    \/ AppendEntry
    \/ FinalWrite

Spec == Init /\ [][Next]_vars

(* ------------------- a BatchSimulator from its construction ------------ *)
\* the lists of the batches that follow each other on one BatchSimulator
SessionLists == UNION {{MuSweep(n, bad) : bad \in BadChoices(n)} : n \in 0..MaxSessionN}

\* line 156 / a raise: the call is over, its frame is gone, and the caller, which
\* holds the BatchSimulator, goes on
ReturnToCaller ==
    /\ pc \in {"done", "raised"}
    /\ pools < MaxBatches
    /\ pc' = "idle"
    /\ call' = "none"
    /\ error' = ""
    /\ base_params' = EmptyDict
    /\ ranges' = <<>>
    /\ param_list' = <<>>
    /\ n_jobs' = {}
    /\ processes' = 0
    /\ tasks' = <<>>
    /\ i' = 0
    /\ result' = None
    /\ index' = <<>>
    /\ UNCHANGED <<pools, index_file, artifacts, arrays, sim>>
    /\ UNCHANGED ctorVars

AskOperator ==
    /\ pc = "prompt"
    /\ \E a \in AnswerChoices : Prompt(a)

SessionCallLow ==
    /\ pc = "idle"
    /\ \E pl \in SessionLists : CallLow(pl, {})

SessionNext ==
    \/ Construct
    \/ AskOperator
    \/ Rmtree
    \/ Makedirs
    \/ SessionCallLow
    \/ EnterLow
    \/ Worker
    \/ Receive
    \/ SaveArtifact
    \/ AppendEntry
    \/ FinalWrite
    \/ ReturnToCaller

Session == InitNew /\ [][SessionNext]_vars

(* ------------------- run_simulation, statement by statement ------------ *)
\* the inputs of a stepped call: max_t, dt, and the names in initial_guess
SimMaxT == {Rat(k, 10) : k \in 0..MaxTenths}
SimDt == {Rat(1, 10), Rat(1, 4), Rat(3, 10), Rat(2, 1), Rat(0, 1)}
SimGuesses == {{}, {"lambda2"}, {"lambda2", "lambda4"}}

\* everything but the frame of run_simulation
nonSimVars == <<pc, call, error, base_params, ranges, param_list, n_jobs, processes,
                pools, tasks, i, result, index, index_file, artifacts,
                outdir, overwrite, ans, exit_code, arrays>>

\* run_simulation is about to be called in a worker, with its start state
SimInit ==
    /\ pc = "idle"
    /\ call = "none"
    /\ error = ""
    /\ base_params = EmptyDict
    /\ ranges = <<>>
    /\ param_list = <<>>
    /\ n_jobs = {}
    /\ processes = 0
    /\ pools = 0
    /\ tasks = <<>>
    /\ i = 0
    /\ result = None
    /\ index = <<>>
    /\ index_file = NoFile
    /\ artifacts = <<>>
    /\ outdir = "dir"
    /\ overwrite = FALSE
    /\ ans = <<>>
    /\ exit_code = {}
    /\ arrays = [x \in {SelfArray} |-> WarmupState]
    /\ \E t \in SimMaxT, d \in SimDt, g \in SimGuesses :
          sim = [pc |-> "call", max_t |-> t, dt |-> d, initial_guess |-> g]

\* lines 30-42: the two trajectories, max_n and the empty series.  A trajectory is
\* named by how many times it was advanced; max_t/dt raises when dt = 0
SimEnter ==
    /\ sim.pc = "call"
    /\ sim' = IF sim.dt.n = 0
              THEN [pc |-> "raised", exc |-> "ZeroDivisionError",
                    max_t |-> sim.max_t, dt |-> sim.dt]
              ELSE [pc |-> "for",
                    max_t |-> sim.max_t,
                    dt |-> sim.dt,
                    true |-> 0,
                    assimilator |-> 0,
                    nudged |-> <<>>,
                    estimate_params |-> sim.initial_guess,
                    max_n |-> IntDiv(sim.max_t, sim.dt),
                    n |-> 0,
                    target |-> None,
                    projected_state |-> None,
                    set_target |-> None,
                    interp_errors |-> <<>>,
                    true_errors |-> <<>>,
                    param_errors |-> [p \in sim.initial_guess |-> <<>>],
                    result |-> None]
    /\ UNCHANGED nonSimVars

\* line 44: for n in range(max_n)
SimFor ==
    /\ sim.pc = "for"
    /\ sim' = [sim EXCEPT !.pc = IF sim.n < sim.max_n THEN "observe" ELSE "result"]
    /\ UNCHANGED nonSimVars

\* a loop that computes the target once and keeps it
SimObserveOnce ==
    /\ sim.pc = "observe"
    /\ sim' = [sim EXCEPT !.target = IF sim.target = None
                                     THEN [of |-> sim.true] ELSE sim.target,
                          !.projected_state = [of |-> sim.assimilator],
                          !.pc = "record"]
    /\ UNCHANGED nonSimVars

\* lines 45-46: the projections of the two current states
SimObserve ==
    /\ sim.pc = "observe"
    /\ sim' = [sim EXCEPT !.target = [of |-> sim.true],
                          !.projected_state = [of |-> sim.assimilator],
                          !.pc = "record"]
    /\ UNCHANGED nonSimVars

\* lines 47-51: one entry in each series, computed from the current states
SimRecord ==
    /\ sim.pc = "record"
    /\ sim' = [sim EXCEPT
                 !.interp_errors =
                     Append(@, [target |-> sim.target.of,
                                estimate |-> sim.projected_state.of]),
                 !.true_errors =
                     Append(@, [true |-> sim.true, assimilator |-> sim.assimilator]),
                 !.param_errors =
                     [p \in DOMAIN @ |->
                         Append(@[p], [true |-> sim.true,
                                       assimilator |-> sim.assimilator])],
                 !.pc = "set_target"]
    /\ UNCHANGED nonSimVars

\* line 52: assimilator.set_target(target)
SimSetTarget ==
    /\ sim.pc = "set_target"
    /\ sim' = [sim EXCEPT !.set_target = sim.target, !.pc = "advance"]
    /\ UNCHANGED nonSimVars

\* line 53: assimilator.advance(), nudged toward the target it was given
SimAdvanceAssim ==
    /\ sim.pc = "advance"
    /\ sim' = [sim EXCEPT !.assimilator = @ + 1,
                          !.nudged = Append(@, sim.set_target.of),
                          !.pc = "advance_true"]
    /\ UNCHANGED nonSimVars

\* line 54: true.advance(), and the loop goes to its next n
SimAdvanceTrue ==
    /\ sim.pc = "advance_true"
    /\ sim' = [sim EXCEPT !.true = @ + 1, !.n = @ + 1, !.pc = "for"]
    /\ UNCHANGED nonSimVars

\* lines 56-58: the result, a dict of the series
SimReturn ==
    /\ sim.pc = "result"
    /\ sim' = [sim EXCEPT
                 !.pc = "returned",
                 !.result =
                     [p \in sim.estimate_params \cup {"interp_errors", "true_errors"} |->
                         IF p = "interp_errors" THEN sim.interp_errors
                         ELSE IF p = "true_errors" THEN sim.true_errors
                         ELSE sim.param_errors[p]]]
    /\ UNCHANGED nonSimVars

SimNext ==
    \/ SimEnter
    \/ SimFor
    \/ SimObserve
    \/ SimRecord
    \/ SimSetTarget
    \/ SimAdvanceAssim
    \/ SimAdvanceTrue
    \/ SimReturn

SimSpec == SimInit /\ [][SimNext]_vars

(* ------------------------- batches with fair workers ------------------- *)
\* No worker hangs or dies: every task that can run is run to its end, and the
\* orchestrator, when it can take a step, takes it.
FairNext ==
    \/ CallRunSimulationsLow
    \/ EnterLow
    \/ Worker
    \/ Receive
    \/ SaveArtifact
    \/ AppendEntry
    \/ FinalWrite

FairSpec ==
    /\ Init
    /\ [][FairNext]_vars
    /\ WF_vars(EnterLow)
    /\ WF_vars(Worker)
    /\ WF_vars(Receive)
    /\ WF_vars(SaveArtifact)
    /\ WF_vars(AppendEntry)
    /\ WF_vars(FinalWrite)

(* ------------------------------- claims ------------------------------- *)
\* the loop of run_simulations_low is running (lines 136-152) or has just ended (154)
InBatch == pc \in {"recv", "save", "append", "final"}

\* run_simulation(**params) raises by itself (no signal)
Raises(params) == RaisedBy(params, "none") # ""

Succeeded(idx) == {k \in 1..Len(idx) : idx[k].succeded}
Failed(idx) == {k \in 1..Len(idx) : ~idx[k].succeded}

\* C1: before the final write, an index file on disk holds a multiple of 10 entries,
\* and no more entries than runs have completed.
C1_SnapshotMultipleOfTen ==
    (InBatch /\ index_file.exists) =>
        /\ Len(index_file.entries) % CheckpointPeriod = 0
        /\ Len(index_file.entries) <= Len(index)

\* C2: the Index never holds more than N entries; when the batch completes the Index
\* and index.json hold exactly N entries, each succeeded or failed, and the two
\* counts add up to N.
C2_IndexComplete ==
    /\ Len(index) <= Len(param_list)
    /\ pc = "done" =>
        /\ Len(index) = Len(param_list)
        /\ index_file.exists
        /\ Len(index_file.entries) = Len(param_list)
        /\ \A k \in 1..Len(index) :
              /\ index[k].succeded \in BOOLEAN
              /\ index_file.entries[k].succeded =
                     (IF index[k].succeded THEN "true" ELSE "false")
        /\ Cardinality(Succeeded(index)) + Cardinality(Failed(index)) = Len(param_list)

\* C2 witness: a completed batch with a failed and a succeeded run
C2_Witness ==
    /\ pc = "done"
    /\ Succeeded(index) # {}
    /\ Failed(index) # {}

\* C3: every successful entry, in memory or in index.json, names an artifact that is
\* in the output directory.
C3_ArtifactBeforeEntry ==
    /\ \A k \in 1..Len(index) :
          index[k].succeded => index[k].filename \in DOMAIN artifacts
    /\ \A k \in 1..Len(index_file.entries) :
          index_file.entries[k].succeded = "true" =>
              index_file.entries[k].filename \in DOMAIN artifacts

\* C3 witness: a periodic snapshot with successful entries, while the batch still runs
C3_Witness ==
    /\ InBatch
    /\ i < Len(param_list)
    /\ index_file.exists
    /\ \E k \in 1..Len(index_file.entries) : index_file.entries[k].succeded = "true"

\* C4: a run that raises gives a null result and a failed entry and does not abort the
\* batch; every run of the batch whose loop completes has its artifact and a
\* successful entry, wherever the failing run stands in the list.
C4_FailureIsolated ==
    /\ ~(pc = "raised" /\ pools > 0)
    /\ \A k \in 1..Len(tasks) :
          Ready(tasks[k]) =>
              /\ tasks[k].out.kind = "return"
              /\ Raises(param_list[k]) <=> tasks[k].out.value = None
    /\ \A k \in 1..Len(index) :
          IF Raises(param_list[k])
          THEN ~index[k].succeded
          ELSE /\ index[k].succeded
               /\ index[k].filename = ArtifactName(k - 1)
               /\ ArtifactName(k - 1) \in DOMAIN artifacts
    /\ pc = "done" => Len(index) = Len(param_list)

\* C4 witness: a completed batch of at least three runs whose first run failed and
\* whose last run succeeded
C4_Witness ==
    /\ pc = "done"
    /\ Len(index) >= 3
    /\ ~index[1].succeded
    /\ index[Len(index)].succeded

\* C5: when the orchestrator waits for a task whose worker process died, the pool
\* hands it a result for that task (the sentinel), so that it goes on.
C5_CrashSurfacesAsSentinel ==
    (pc = "recv" /\ i < Len(tasks) /\ Lost(tasks[i + 1])) => ENABLED Receive

AfterRunBatch == call = "run_batch" /\ pc \in {"low", "raised"}

\* a scale form and its raw form are both given, by base_params or by ranges
BothActive(b, r, scale, raw) ==
    /\ scale \in (DOMAIN b) \cup RangeKeys(r)
    /\ raw \in (DOMAIN b) \cup RangeKeys(r)

ConfigurationErrors == {"RuntimeWarning", "ValueError"}

NothingDispatched ==
    /\ pools = 0
    /\ tasks = <<>>
    /\ ~index_file.exists
    /\ DOMAIN artifacts = {}

\* C7 (as stated): run_batch fails with a configuration error, before anything is
\* dispatched, whenever mu_scale and mu (or alpha_scale and alpha) are both given,
\* whichever of base_params and ranges gives each.  (Stated for the grids that have
\* at least one combination, where a simulation would be dispatched.)
C7_RejectsEveryScaleRawPair ==
    (AfterRunBatch /\ GridSize(ranges) > 0
                   /\ (\/ BothActive(base_params, ranges, "mu_scale", "mu")
                       \/ BothActive(base_params, ranges, "alpha_scale", "alpha"))) =>
        /\ pc = "raised"
        /\ error \in ConfigurationErrors
        /\ NothingDispatched

\* C7 (amended): run_batch fails with ValueError, before anything is dispatched, whenever
\* base_params sets mu_scale and ranges varies mu, or base_params sets alpha_scale and
\* ranges varies alpha.
C7_RejectsBaseScaleVariedRaw ==
    (AfterRunBatch /\ (\/ ("mu_scale" \in DOMAIN base_params
                               /\ \E a \in 1..Len(ranges) : ranges[a].p = "mu")
                       \/ ("alpha_scale" \in DOMAIN base_params
                               /\ \E a \in 1..Len(ranges) : ranges[a].p = "alpha"))) =>
        /\ pc = "raised"
        /\ error = "ValueError"
        /\ NothingDispatched

\* C7 witness: alpha_scale in base_params and alpha in ranges (and no mu conflict), rejected
C7_Witness ==
    /\ AfterRunBatch
    /\ "alpha_scale" \in DOMAIN base_params
    /\ "mu_scale" \notin DOMAIN base_params
    /\ \E a \in 1..Len(ranges) : ranges[a].p = "alpha"
    /\ error = "ValueError"

\* C8: when run_batch rejects its input (empty ranges, or a scale form in base_params
\* whose raw form is varied) the caller gets the error, no pool was created, no task
\* was dispatched and the output directory holds no index.json and no artifact.
C8_RejectionBeforeDispatch ==
    (AfterRunBatch /\ (\/ Len(ranges) = 0
                       \/ ("mu_scale" \in DOMAIN base_params
                               /\ \E a \in 1..Len(ranges) : ranges[a].p = "mu")
                       \/ ("alpha_scale" \in DOMAIN base_params
                               /\ \E a \in 1..Len(ranges) : ranges[a].p = "alpha"))) =>
        /\ pc = "raised"
        /\ error \in ConfigurationErrors
        /\ param_list = <<>>
        /\ NothingDispatched
        /\ ~ENABLED Next

\* C8 witness: empty ranges with a non-empty base_params, rejected
C8_Witness ==
    /\ AfterRunBatch
    /\ Len(ranges) = 0
    /\ DOMAIN base_params # {}
    /\ pc = "raised"
    /\ error = "RuntimeWarning"

\* the number of combinations in which the axes after axis a vary
RECURSIVE Stride(_, _)
Stride(r, a) == IF a >= Len(r) THEN 1 ELSE Len(r[a + 1].vals) * Stride(r, a + 1)

\* the position on axis a of the j-th combination, the last axis varying fastest
Digit(r, a, j) == (((j - 1) \div Stride(r, a)) % Len(r[a].vals)) + 1

\* the base ParameterSet overlaid with the values of the j-th combination
OverlaidWith(b, r, j) ==
    [k \in (DOMAIN b) \cup RangeKeys(r) |->
        IF k \in RangeKeys(r)
        THEN LET a == CHOOSE x \in 1..Len(r) : r[x].p = k
             IN  r[a].vals[Digit(r, a, j)]
        ELSE b[k]]

\* q is the quotient a / b, in lowest terms
IsQuotient(q, a, b) ==
    /\ b.n # 0
    /\ q.n * b.n * a.d = a.n * q.d * b.d
    /\ q.d > 0
    /\ GCD(Abs(q.n), q.d) = 1

\* C9 (as stated): run_batch builds n1*...*nk ParameterSets in product order, the last
\* axis varying fastest, and each equals the base overlaid with its combination.
C9_GridIsPlainOverlay ==
    (AfterRunBatch /\ pc = "low") =>
        /\ Len(param_list) = GridSize(ranges)
        /\ \A j \in 1..Len(param_list) :
              param_list[j] = OverlaidWith(base_params, ranges, j)

\* C9 (amended): for an input run_batch accepts, it builds n1*...*nk ParameterSets in
\* product order, the last axis varying fastest, and each equals the base overlaid
\* with its combination except that a set holding dt and mu_scale (alpha_scale) has
\* mu (alpha) set to the derived gain.
C9_GridIsOverlayPlusDerived ==
    (AfterRunBatch /\ pc = "low") =>
        /\ Len(ranges) > 0
        /\ Len(param_list) = GridSize(ranges)
        /\ \A j \in 1..Len(param_list) :
              LET o == OverlaidWith(base_params, ranges, j)
                  s == param_list[j]
                  derived ==
                      (IF {"dt", "mu_scale"} \subseteq DOMAIN o THEN {"mu"} ELSE {})
                      \cup
                      (IF {"dt", "alpha_scale"} \subseteq DOMAIN o THEN {"alpha"} ELSE {})
              IN  /\ DOMAIN s = (DOMAIN o) \cup derived
                  /\ \A k \in (DOMAIN o) \ derived : s[k] = o[k]
                  /\ "mu" \in derived => IsQuotient(s["mu"], o["mu_scale"], o["dt"])
                  /\ "alpha" \in derived =>
                         IsQuotient(s["alpha"], o["alpha_scale"], o["dt"])

\* C9 witness: two axes of two values each, expanded to four sets with a derived mu
C9_Witness ==
    /\ AfterRunBatch
    /\ pc = "low"
    /\ Len(ranges) = 2
    /\ Len(ranges[1].vals) = 2
    /\ Len(ranges[2].vals) = 2
    /\ Len(param_list) = 4
    /\ ranges[1].p = "mu_scale"
    /\ "dt" \in DOMAIN base_params
    /\ "mu" \notin DOMAIN base_params

\* C10: a ParameterSet built by run_batch that holds dt and mu_scale has
\* mu = mu_scale / dt of its own values, whatever mu the base gave; the same for
\* alpha_scale and alpha.
C10_DerivedGain ==
    (AfterRunBatch /\ pc = "low") =>
        \A j \in 1..Len(param_list) :
            LET s == param_list[j]
            IN  /\ {"dt", "mu_scale"} \subseteq DOMAIN s =>
                      /\ "mu" \in DOMAIN s
                      /\ IsQuotient(s["mu"], s["mu_scale"], s["dt"])
                /\ {"dt", "alpha_scale"} \subseteq DOMAIN s =>
                      /\ "alpha" \in DOMAIN s
                      /\ IsQuotient(s["alpha"], s["alpha_scale"], s["dt"])

\* C10 witness: the base gives mu and alpha, dt is varied, and the built sets hold
\* gains that differ from the base's and from each other
C10_Witness ==
    /\ AfterRunBatch
    /\ pc = "low"
    /\ {"mu", "mu_scale", "alpha", "alpha_scale"} \subseteq DOMAIN base_params
    /\ "dt" \in RangeKeys(ranges)
    /\ Len(param_list) = 2
    /\ param_list[1]["mu"] # base_params["mu"]
    /\ param_list[1]["mu"] # param_list[2]["mu"]
    /\ param_list[1]["alpha"] # base_params["alpha"]

\* C11: results are consumed in submission order: the Index holds one entry for each
\* of the first i tasks, the k-th entry carries the k-th submitted ParameterSet and
\* belongs to a task that has reported, a successful k-th entry names the artifact
\* of position k (counted from 0, as line 143 counts) which holds the result computed
\* from that ParameterSet, and no later task has an entry while an earlier one has none.
C11_SubmissionOrder ==
    (InBatch \/ pc = "done") =>
        /\ Len(index) = i
        /\ \A k \in 1..Len(index) :
              /\ index[k].params = param_list[k]
              /\ Ready(tasks[k])
              /\ index[k].succeded =>
                    /\ index[k].filename = ArtifactName(k - 1)
                    /\ artifacts[ArtifactName(k - 1)] = tasks[k].out.value
                    /\ artifacts[ArtifactName(k - 1)].dt = EffectiveDt(param_list[k])
                    /\ artifacts[ArtifactName(k - 1)].mu = EffectiveMu(param_list[k])
        /\ \A k \in (Len(index) + 1)..Len(tasks) :
              ArtifactName(k) \notin DOMAIN artifacts

\* C11 witness: the loop waits for task i+1, which still runs, while task i+2 has
\* already finished, and entries of earlier tasks are in the Index
C11_Witness ==
    /\ pc = "recv"
    /\ i >= 1
    /\ i + 2 <= Len(tasks)
    /\ tasks[i + 1].st = "queued"
    /\ Ready(tasks[i + 2])
    /\ Len(index) = i

\* run_simulations_low has computed its process count and called mp.Pool (line 133)
PoolRequested == call = "run_simulations_low" /\ pc \notin {"idle", "low"}

\* C12: for every n_jobs and every parameter list, the empty one included,
\* run_simulations_low creates its pool, with at least 1 process and with no more
\* processes than there are tasks.
C12_ProcessesClamped ==
    PoolRequested =>
        /\ processes >= 1
        /\ processes <= Len(param_list)
        /\ pools = 1
        /\ ~(pc = "raised" /\ error = "ValueError")

\* s is a prefix of t
IsPrefix(s, t) == Len(s) <= Len(t) /\ SubSeq(t, 1, Len(s)) = s

\* C14: during one run_simulations_low call the Index changes only by an append at
\* its end; an index.json written during the call is a prefix of the Index, and the
\* next one written extends it; every entry of a snapshot is the entry of a task
\* that had reported its result.
C14_SnapshotsArePrefixes ==
    /\ []((InBatch \/ pc = "done") =>
             (index_file.exists =>
                 /\ IsPrefix(index_file.entries, JsonDump(index))
                 /\ \A k \in 1..Len(index_file.entries) :
                       /\ Ready(tasks[k])
                       /\ index_file.entries[k].params = param_list[k]))
    /\ [][InBatch =>
             /\ index' = index \/ (Len(index') = Len(index) + 1 /\ IsPrefix(index, index'))
             /\ index_file.exists =>
                   /\ index_file'.exists
                   /\ IsPrefix(index_file.entries, index_file'.entries)
                   /\ IsPrefix(index_file'.entries, JsonDump(index'))]_vars

\* C14 witness: the loop has ended with a periodic snapshot on disk that is shorter
\* than the Index, and the final snapshot is about to replace it
C14_Witness ==
    /\ pc = "final"
    /\ index_file.exists
    /\ Len(index_file.entries) > 0
    /\ Len(index_file.entries) < Len(index)

\* task k has not reported a result: its worker still runs, hangs, or has died
Unreported(k) == k \in 1..Len(tasks) /\ ~Ready(tasks[k])

\* C17: while the worker of a task has not returned, the orchestrator has appended no
\* entry for that task or for a later one, has not left the loop, has not done the
\* final write and has not returned; while it waits for such a task it can do nothing
\* (there is no timeout), whatever later tasks have finished.
C17_HungWorkerStallsBatch ==
    pools > 0 =>
        \A k \in 1..Len(tasks) :
            Unreported(k) =>
                /\ Len(index) < k
                /\ i < k
                /\ pc \notin {"final", "done"}
                /\ index_file.exists => Len(index_file.entries) < k
                /\ (pc = "recv" /\ i = k - 1) =>
                      ~(ENABLED Receive \/ ENABLED SaveArtifact
                            \/ ENABLED AppendEntry \/ ENABLED FinalWrite)

\* C17 witness: the loop waits for a task whose worker will never report (it has
\* died) while every later task has finished in the other workers
C17_Witness ==
    /\ pc = "recv"
    /\ i + 2 <= Len(tasks)
    /\ Lost(tasks[i + 1])
    /\ \A k \in (i + 2)..Len(tasks) : Ready(tasks[k])
    /\ Len(index) = i

\* C19: every run dispatched by run_batch whose ParameterSet sets mu_scale builds its
\* assimilator with mu = mu_scale / dt, dt being the step the run integrates with
\* (its default when the set names none); the same for alpha_scale and alpha.
C19_GainFollowsEffectiveStep ==
    (AfterRunBatch /\ pc = "low") =>
        \A j \in 1..Len(param_list) :
            LET s == param_list[j]
                run == run_simulation(s, "none")
            IN  run.kind = "return" =>
                    /\ "mu_scale" \in DOMAIN s =>
                          IsQuotient(run.value.mu, s["mu_scale"], run.value.dt)
                    /\ "alpha_scale" \in DOMAIN s =>
                          /\ run.value.alpha # None
                          /\ IsQuotient(run.value.alpha, s["alpha_scale"], run.value.dt)

\* __init__ is executing (lines 72-94)
InConstructor == pc \in {"new", "prompt", "rmtree", "makedirs"}

\* outdir holds nothing
OutdirEmpty == ~index_file.exists /\ DOMAIN artifacts = {}

\* C13: an existing outdir is removed only with the overwrite flag set or after the
\* operator has answered y; when the operator declines, the process exits with
\* status 0, outdir and its contents are as they were and no batch ever starts; and
\* when __init__ has returned, outdir exists and is empty.
C13_NoSilentReuse ==
    /\ [](pc = "rmtree" => (outdir = "dir" /\ (overwrite \/ Confirms(ans))))
    /\ [](pc = "exited" =>
             /\ exit_code = {0}
             /\ ~overwrite
             /\ ~Confirms(ans)
             /\ outdir = "dir"
             /\ pools = 0
             /\ call = "none"
             /\ ~ENABLED SessionNext)
    /\ []((pc = "idle" /\ pools = 0) => (outdir = "dir" /\ OutdirEmpty))
    /\ [](~InConstructor /\ pc # "exited" => outdir = "dir")
    /\ [][(InConstructor /\ pc # "rmtree") => UNCHANGED <<index_file, artifacts>>]_vars
    /\ [][pc' = "exited" =>
             (pc = "prompt" /\ UNCHANGED <<outdir, index_file, artifacts>>)]_vars
    /\ [][(InConstructor /\ outdir = "dir" /\ outdir' # "dir") =>
             (overwrite \/ Confirms(ans))]_vars

\* C13 witness: the operator has declined and the process has exited, leaving the
\* index.json and the artifact of an earlier batch in outdir
C13_Witness ==
    /\ pc = "exited"
    /\ exit_code = {0}
    /\ index_file.exists
    /\ DOMAIN artifacts # {}
    /\ ans # <<>>

\* the artifacts that the successful entries of an index.json name
NamedBy(entries) ==
    {entries[k].filename : k \in {j \in 1..Len(entries) : entries[j].succeded = "true"}}

\* C20: when a batch has completed, whatever batches ran before it on the same
\* BatchSimulator, the artifacts in outdir are exactly those its index.json names in
\* successful entries: one for each successful run, none at the position of a failed run.
C20_ArtifactsAreLastBatch ==
    pc = "done" =>
        /\ index_file = WriteIndex(index)
        /\ DOMAIN artifacts = NamedBy(index_file.entries)
        /\ \A k \in 1..Len(index) :
              index[k].succeded <=> ArtifactName(k - 1) \in DOMAIN artifacts

\* the number of times the reference trajectory of task k's run has been advanced
StepsOf(t) == IF t.out.kind = "return" /\ t.out.value # None THEN t.out.value.steps ELSE 0

\* C15: the orchestrator's WarmupState is the one captured at construction, in every
\* state of every batch; every task that has run had its own copy of it, which is
\* intact, and its run's reference trajectory started from that state and is the only
\* thing its advances changed, in whatever order the workers finished.
C15_WarmupStateShared ==
    pc \notin {"new"} =>
        /\ arrays[SelfArray] = WarmupState
        /\ \A k \in 1..Len(tasks) :
              tasks[k].st = "done" =>
                  /\ {TaskArray(k), TrueArray(k)} \subseteq DOMAIN arrays
                  /\ Cardinality({SelfArray, TaskArray(k), TrueArray(k)}) = 3
                  /\ arrays[TaskArray(k)] = WarmupState
                  /\ arrays[TrueArray(k)] = Advanced(WarmupState, StepsOf(tasks[k]))
                  /\ \A j \in 1..Len(tasks) :
                        j # k => {TaskArray(k), TrueArray(k)} \cap
                                     {TaskArray(j), TrueArray(j)} = {}

\* C15 witness: a second batch on the same BatchSimulator in which the second task
\* finished its run while the first task's worker had not
C15_Witness ==
    /\ pools = 2
    /\ Len(tasks) = 2
    /\ tasks[1].st = "queued"
    /\ tasks[2].st = "done"
    /\ StepsOf(tasks[2]) > 0
    /\ arrays[TrueArray(2)] # WarmupState

\* m = floor(t / d) for rationals t >= 0, d > 0:  m*d <= t < (m+1)*d
IsFloorOfQuotient(m, t, d) ==
    /\ m * d.n * t.d <= t.n * d.d
    /\ t.n * d.d < (m + 1) * d.n * t.d

\* every series of the run_simulation frame s
SeriesOf(s) ==
    {s.interp_errors, s.true_errors} \cup {s.param_errors[p] : p \in DOMAIN s.param_errors}

\* C16: at the head of the loop, after k iterations, both trajectories have been
\* advanced k times and every series has k entries; the j-th entry of every series
\* and the target of the j-th nudged advance come from the states advanced j-1
\* times; the assimilator is never more than one advance ahead of the reference and
\* never behind; and the returned series have floor(max_t/dt) entries each.
C16_LockstepRecordThenAdvance ==
    sim.pc \in {"for", "observe", "record", "set_target", "advance", "advance_true",
                "result", "returned"} =>
        /\ sim.true = sim.n
        /\ sim.assimilator = sim.n + (IF sim.pc = "advance_true" THEN 1 ELSE 0)
        /\ Len(sim.nudged) = sim.assimilator
        /\ \A series \in SeriesOf(sim) :
              Len(series) =
                  sim.n + (IF sim.pc \in {"set_target", "advance", "advance_true"}
                           THEN 1 ELSE 0)
        /\ \A j \in 1..Len(sim.interp_errors) :
              sim.interp_errors[j] = [target |-> j - 1, estimate |-> j - 1]
        /\ \A j \in 1..Len(sim.true_errors) :
              sim.true_errors[j] = [true |-> j - 1, assimilator |-> j - 1]
        /\ \A p \in DOMAIN sim.param_errors :
              \A j \in 1..Len(sim.param_errors[p]) :
                  sim.param_errors[p][j] = [true |-> j - 1, assimilator |-> j - 1]
        /\ \A j \in 1..Len(sim.nudged) : sim.nudged[j] = j - 1
        /\ sim.pc = "returned" =>
              /\ DOMAIN sim.result = sim.estimate_params \cup {"interp_errors", "true_errors"}
              /\ \A p \in DOMAIN sim.result :
                    IsFloorOfQuotient(Len(sim.result[p]), sim.max_t, sim.dt)

\* C16 witness: a call with two estimated parameters has returned after several
\* steps, with max_t no multiple of dt
C16_Witness ==
    /\ sim.pc = "returned"
    /\ Cardinality(sim.estimate_params) = 2
    /\ Len(sim.result["lambda2"]) >= 3
    /\ sim.true = Len(sim.result["interp_errors"])
    /\ sim.true * sim.dt.n * sim.max_t.d # sim.max_t.n * sim.dt.d

\* C18: with workers that all return, a run_simulations_low whose pool was created
\* terminates; the step by which it ends is a write of the whole Index, made whatever
\* the number of entries is; index.json then holds an entry for every one of the N
\* ParameterSets.
C18_TerminatesWithFullIndex ==
    /\ (pc = "recv") ~> (pc = "done")
    /\ [](pc = "done" =>
             /\ Len(index) = Len(param_list)
             /\ index_file = WriteIndex(index)
             /\ Len(index_file.entries) = Len(param_list))
    /\ [][(pc # "done" /\ pc' = "done") =>
             /\ pc = "final"
             /\ index' = index
             /\ index_file' = WriteIndex(index)]_vars

\* C18 witness: a batch of as many runs as the checkpoint period has ended, so that
\* the periodic snapshot held one entry fewer than the final one
C18_Witness ==
    /\ pc = "done"
    /\ Len(param_list) = CheckpointPeriod
    /\ Len(index_file.entries) = CheckpointPeriod

====
